---- MODULE Spec2Model ----
(***************************************************************************)
(* A model of the EDN reader of edn-rs (src/src/deserialize/parse.rs).     *)
(*                                                                         *)
(* A text is a sequence of one-character strings.  The live cursor         *)
(* (`chars: &mut Enumerate<Chars>`) over a text t is a position p: the     *)
(* next item it yields is (p - 1, t[p]), and it is exhausted when          *)
(* p > Len(t).  A clone of the cursor is a copy of p.  Every reader is an  *)
(* operator from (t, p) to a record [res |-> value or error, pos |-> the   *)
(* position of the live cursor when the reader returns].                   *)
(***************************************************************************)
EXTENDS Integers, Sequences, FiniteSets, TLC

VARIABLES
  pieces,   \* the lexical pieces of the input, in order
  gap,      \* the separator written between two pieces
  pc,       \* "ready" before the call of parse, "done" after it,
            \* "converted" after the call of from_edn
  result,   \* what parse returned: a value, or an error
  cursor,   \* position of the caller's cursor after the call
  encoded,  \* the number the caller wrote as the input, when it wrote one
  target,   \* the type T the caller asks from_edn for
  converted \* what from_edn returned, or that it panicked

vars == <<pieces, gap, pc, result, cursor, encoded, target, converted>>

(***************************************************************************)
(* Characters                                                              *)
(***************************************************************************)
QUOTE == "\""
BACKSLASH == "\\"
NEWLINE == "\n"
TAB == "\t"
CR == "\r"
SPACE == " "
\* the Kelvin sign U+212A: three bytes of UTF-8, and its lowercase is the
\* one-byte letter k
KELVIN == "U+212A"

DecDigits == <<"0", "1", "2", "3", "4", "5", "6", "7", "8", "9">>
LowerLetters == <<"a", "b", "c", "d", "e", "f", "g", "h", "i", "j", "k", "l", "m",
                  "n", "o", "p", "q", "r", "s", "t", "u", "v", "w", "x", "y", "z">>
UpperLetters == <<"A", "B", "C", "D", "E", "F", "G", "H", "I", "J", "K", "L", "M",
                  "N", "O", "P", "Q", "R", "S", "T", "U", "V", "W", "X", "Y", "Z">>

Range(s) == {s[i] : i \in DOMAIN s}

IndexIn(c, s) == CHOOSE i \in DOMAIN s : s[i] = c

\* char::is_whitespace, on the ASCII characters
is_whitespace(c) == c \in {SPACE, NEWLINE, TAB, CR}

\* char::is_numeric, on the ASCII characters
is_numeric(c) == c \in Range(DecDigits)

DELIMITERS == {",", "]", "}", ")", ";", "(", "[", "{"}

\* char::to_lowercase / to_uppercase of one character
to_lower_char(c) ==
  IF c \in Range(UpperLetters) THEN LowerLetters[IndexIn(c, UpperLetters)]
  ELSE IF c = KELVIN THEN "k" ELSE c
to_upper_char(c) == IF c \in Range(LowerLetters) THEN UpperLetters[IndexIn(c, LowerLetters)] ELSE c

to_lowercase(s) == [i \in DOMAIN s |-> to_lower_char(s[i])]
to_uppercase(s) == [i \in DOMAIN s |-> to_upper_char(s[i])]

starts_with(s, prefix) ==
  /\ Len(s) >= Len(prefix)
  /\ SubSeq(s, 1, Len(prefix)) = prefix

contains(s, c) == \E i \in DOMAIN s : s[i] = c

\* s without its first n characters
Drop(s, n) == SubSeq(s, n + 1, Len(s))

\* String::remove(k) with a 0-based index k
remove(s, k) == SubSeq(s, 1, k) \o SubSeq(s, k + 2, Len(s))

\* the number of items a clone of the cursor at p yields while they are
\* characters of the set kept
CountWhile(t, p, kept) ==
  LET stops == {i \in p..Len(t) : t[i] \notin kept} IN
  IF stops = {} THEN IF p <= Len(t) THEN Len(t) - p + 1 ELSE 0
  ELSE (CHOOSE i \in stops : \A j \in stops : i <= j) - p

Min(a, b) == IF a <= b THEN a ELSE b

(***************************************************************************)
(* Values (enum Edn) and errors (Error::ParseEdn)                          *)
(***************************************************************************)
Nil == <<"Nil", <<>>>>
Empty == <<"Empty", <<>>>>
Bool(b) == <<"Bool", b>>
Str(s) == <<"Str", s>>
Char(c) == <<"Char", c>>
Symbol(s) == <<"Symbol", s>>
Key(s) == <<"Key", s>>
UInt(limbs) == <<"UInt", limbs>>
EdnInt(neg, limbs) == <<"Int", <<neg, limbs>>>>
Double(d) == <<"Double", d>>
Rational(s) == <<"Rational", s>>
Inst(s) == <<"Inst", s>>
Uuid(s) == <<"Uuid", s>>
Tagged(tag, v) == <<"Tagged", <<tag, v>>>>
Vector(items) == <<"Vector", items>>
List(items) == <<"List", items>>
Set(members) == <<"Set", members>>
Map(entries) == <<"Map", entries>>
NamespacedMap(ns, entries) == <<"NamespacedMap", <<ns, entries>>>>

\* Option::None of parse_internal
None == <<"None", <<>>>>

\* Error::ParseEdn(message): the message's fixed words, the text and the
\* numbers formatted into it
ParseEdn(words, txt, count, radix) == <<"Err", <<words, txt, count, radix>>>>

IsErr(r) == r[1] = "Err"

\* the call panicked: a slice off a character boundary, an `unwrap` on an Err
Panic == <<"Panic", <<>>>>

\* r ends the caller too: an Err passed on by `?`, or a panic unwinding
Aborts(r) == r[1] \in {"Err", "Panic"}
IsValue(r) == r[1] \notin {"Err", "Empty", "None"}

CouldNotIdentifyIndex == ParseEdn("Could not identify symbol index", <<>>, 0, 0)

Ret(r, p) == [res |-> r, pos |-> p]

(***************************************************************************)
(* Strings: read_str                                                       *)
(***************************************************************************)
\* the character an escaped c stands for, "" when \c is no escape sequence
\* EscapedChar with the arms of `r` and `n` exchanged
EscapedChar_rn_swapped(c) ==
  CASE c = "t" -> TAB
    [] c = "r" -> NEWLINE
    [] c = "n" -> CR
    [] c = BACKSLASH -> BACKSLASH
    [] c = QUOTE -> QUOTE
    [] OTHER -> ""

EscapedChar(c) ==
  CASE c = "t" -> TAB
    [] c = "r" -> CR
    [] c = "n" -> NEWLINE
    [] c = BACKSLASH -> BACKSLASH
    [] c = QUOTE -> QUOTE
    [] OTHER -> ""

\* the try_fold of read_str: the accumulator is (last_was_escape, s)
RECURSIVE read_str_fold(_, _, _, _)
read_str_fold(t, p, last_was_escape, s) ==
  IF p > Len(t) THEN Ret(ParseEdn("Unterminated string", <<>>, 0, 0), p)
  ELSE LET c == t[p] IN
    IF last_was_escape
    THEN IF EscapedChar(c) = ""
         THEN Ret(ParseEdn("Invalid escape sequence \\", <<c>>, 0, 0), p + 1)
         ELSE read_str_fold(t, p + 1, FALSE, Append(s, EscapedChar(c)))
    ELSE IF c = QUOTE THEN Ret(Str(s), p + 1)
    ELSE IF c = BACKSLASH THEN read_str_fold(t, p + 1, TRUE, s)
    ELSE read_str_fold(t, p + 1, FALSE, Append(s, c))

read_str(t, p) == read_str_fold(t, p, FALSE, <<>>)

(***************************************************************************)
(* Symbols, keywords, characters                                           *)
(***************************************************************************)
\* `i <= 200` in read_symbol's take_while
SymbolLookahead == 200

IsSymbolChar(c) == ~is_whitespace(c) /\ c \notin DELIMITERS

\* the characters of t that continue a symbol or a number
SymbolChars(t) == {x \in Range(t) : IsSymbolChar(x)}

\* read_symbol stepping the cursor back when the input ends at the symbol
read_symbol_rewinding(a, t, p) ==
  LET c_len == Min(CountWhile(t, p, SymbolChars(t)), SymbolLookahead + 1) IN
  IF p > Len(t) THEN Ret(CouldNotIdentifyIndex, p - 1)
  ELSE IF is_whitespace(a)
  THEN Ret(ParseEdn("\"a\" could not be parsed at char count", <<a>>, p - 1, 0), p)
  ELSE Ret(Symbol(<<a>> \o SubSeq(t, p, p + c_len - 1)), p + c_len)
read_symbol(a, t, p) ==
  LET c_len == Min(CountWhile(t, p, SymbolChars(t)), SymbolLookahead + 1) IN
  IF p > Len(t) THEN Ret(CouldNotIdentifyIndex, p)
  ELSE IF is_whitespace(a)
  THEN Ret(ParseEdn("\"a\" could not be parsed at char count", <<a>>, p - 1, 0), p)
  ELSE Ret(Symbol(<<a>> \o SubSeq(t, p, p + c_len - 1)), p + c_len)

IsKeyChar(c) == ~is_whitespace(c) /\ c \notin {",", ")", "]", "}", ";"}

\* read_key leaving the colon out of the keyword
read_key_without_colon(t, p, c_len) == Ret(Key(SubSeq(t, p, p + c_len - 1)), p + c_len)
read_key(t, p, c_len) == Ret(Key(<<":">> \o SubSeq(t, p, p + c_len - 1)), p + c_len)

read_char(t, p) ==
  IF p > Len(t) THEN Ret(CouldNotIdentifyIndex, p)
  ELSE Ret(Char(t[p]), p + 1)

read_bool_or_nil(c, t, p) ==
  LET val == SubSeq(t, p, p + CountWhile(t, p, SymbolChars(t)) - 1) IN
  IF p > Len(t) THEN Ret(CouldNotIdentifyIndex, p)
  ELSE IF c = "t" /\ val = <<"r", "u", "e">> THEN Ret(Bool(TRUE), p + 3)
  ELSE IF c = "f" /\ val = <<"a", "l", "s", "e">> THEN Ret(Bool(FALSE), p + 4)
  ELSE IF c = "n" /\ val = <<"i", "l">> THEN Ret(Nil, p + 2)
  ELSE read_symbol(c, t, p)

(***************************************************************************)
(* Integers of 64 bits.  A u64 is four limbs of 16 bits, most significant  *)
(* first, so that the checked arithmetic of from_str_radix keeps its       *)
(* width.                                                                  *)
(***************************************************************************)
LimbBase == 65536

ZeroLimbs == <<0, 0, 0, 0>>

\* the u64 of a small natural number
U64(n) == <<0, 0, n \div LimbBase, n % LimbBase>>

\* checked acc * radix + d on a u64: <<overflowed, limbs>>
MulAdd1(x1, l2, l3, l4) == <<x1 \div LimbBase > 0, <<x1 % LimbBase, l2, l3, l4>>>>
MulAdd2(acc, radix, x2, l3, l4) ==
  MulAdd1(acc[1] * radix + (x2 \div LimbBase), x2 % LimbBase, l3, l4)
MulAdd3(acc, radix, x3, l4) ==
  MulAdd2(acc, radix, acc[2] * radix + (x3 \div LimbBase), x3 % LimbBase, l4)
MulAdd4(acc, radix, x4) ==
  MulAdd3(acc, radix, acc[3] * radix + (x4 \div LimbBase), x4 % LimbBase)
MulAdd(acc, radix, d) == MulAdd4(acc, radix, acc[4] * radix + d)

\* the value of c as a digit of any radix up to 36, -1 when it is none
DigitValue(c) ==
  IF c \in Range(DecDigits) THEN IndexIn(c, DecDigits) - 1
  ELSE IF c \in Range(LowerLetters) THEN IndexIn(c, LowerLetters) + 9
  ELSE IF c \in Range(UpperLetters) THEN IndexIn(c, UpperLetters) + 9
  ELSE -1

BelowRadix(v, radix) == IF v < radix THEN v ELSE -1

\* char::to_digit(radix): the digit's value, -1 when c is no digit of the radix
to_digit(c, radix) == BelowRadix(DigitValue(c), radix)

\* the digit loop of from_str_radix: <<"Ok", limbs>> or <<"Err", kind>>
\* (limbs counts the 16-bit limbs of the target type: 4 for u64, 2 for u32)
RECURSIVE digits_fold(_, _, _, _, _)
RECURSIVE digits_step(_, _, _, _, _, _)
RECURSIVE digits_next(_, _, _, _, _)

digits_next(digits, k, radix, r, limbs) ==
  IF r[1] \/ (limbs = 2 /\ (r[2][1] > 0 \/ r[2][2] > 0))
  THEN <<"Err", "number too large to fit in target type">>
  ELSE digits_fold(digits, k + 1, radix, r[2], limbs)

digits_step(digits, k, radix, acc, limbs, d) ==
  IF d < 0 THEN <<"Err", "invalid digit found in string">>
  ELSE digits_next(digits, k, radix, MulAdd(acc, radix, d), limbs)

digits_fold(digits, k, radix, acc, limbs) ==
  IF k > Len(digits) THEN <<"Ok", acc>>
  ELSE digits_step(digits, k, radix, acc, limbs, to_digit(digits[k], radix))

\* from_str_radix of an unsigned type: a leading `+` is allowed, a `-` is
\* an invalid digit
unsigned_from_str_radix(s, radix, limbs) ==
  IF s = <<>> THEN <<"Err", "cannot parse integer from empty string">>
  ELSE IF s \in {<<"+">>, <<"-">>} THEN <<"Err", "invalid digit found in string">>
  ELSE digits_fold(IF s[1] = "+" THEN Tail(s) ELSE s, 1, radix, ZeroLimbs, limbs)

u64_from_str_radix(s, radix) == unsigned_from_str_radix(s, radix, 4)

\* str::parse::<u32>() of the radix prefix
u32_from_str(s) == unsigned_from_str_radix(s, 10, 2)

\* the range check of i64 on a magnitude
i64_of_magnitude(neg, mag) ==
  IF mag[1] = "Err" THEN mag
  ELSE IF mag[2][1] < LimbBase \div 2 THEN <<"Ok", <<neg /\ mag[2] # ZeroLimbs, mag[2]>>>>
  ELSE IF neg /\ mag[2] = <<LimbBase \div 2, 0, 0, 0>> THEN <<"Ok", <<TRUE, mag[2]>>>>
  ELSE IF neg THEN <<"Err", "number too small to fit in target type">>
  ELSE <<"Err", "number too large to fit in target type">>

\* i64::from_str_radix: <<"Ok", <<negative, magnitude>>>> or <<"Err", kind>>
i64_from_str_radix(s, radix) ==
  IF s = <<>> THEN <<"Err", "cannot parse integer from empty string">>
  ELSE IF s \in {<<"+">>, <<"-">>} THEN <<"Err", "invalid digit found in string">>
  ELSE i64_of_magnitude(
         s[1] = "-",
         digits_fold(IF s[1] \in {"+", "-"} THEN Tail(s) ELSE s, 1, radix, ZeroLimbs, 4))

(***************************************************************************)
(* Floats: str::parse::<f64>().  A finite double is kept as the decimal    *)
(* number the text denotes: sign, digits without leading or trailing       *)
(* zeros, and power of ten (the rounding to 53 bits is not modelled).      *)
(***************************************************************************)
IsDigitRun(s) == \A i \in DOMAIN s : is_numeric(s[i])

\* s without its leading zeros, and without its trailing zeros
StripLeadingZeros(s) == Drop(s, CountWhile(s, 1, {"0"}))
StripTrailingZeros(s) ==
  SubSeq(s, 1, Len(s) - Cardinality({i \in DOMAIN s : \A j \in i..Len(s) : s[j] = "0"}))

\* a short run of decimal digits as a number
RECURSIVE SmallNat(_)
SmallNat(s) ==
  IF s = <<>> THEN 0
  ELSE 10 * SmallNat(SubSeq(s, 1, Len(s) - 1)) + DigitValue(s[Len(s)])

\* decimal exponents beyond these denote infinity and zero
F64MaxExp10 == 309
F64MinExp10 == -324

NaN == <<"nan", FALSE, <<>>, 0>>
Infinity(neg) == <<"inf", neg, <<>>, 0>>

\* sig * 10^e, sig without leading or trailing zeros
Normal(neg, sig, e) ==
  IF sig = <<>> THEN <<"fin", FALSE, <<>>, 0>>
  ELSE IF e + Len(sig) > F64MaxExp10 THEN Infinity(neg)
  ELSE IF e + Len(sig) < F64MinExp10 THEN <<"fin", FALSE, <<>>, 0>>
  ELSE <<"fin", neg, sig, e>>

Stripped(neg, lead, sig, exp10) == Normal(neg, sig, exp10 + (Len(lead) - Len(sig)))

Unpadded(neg, lead, exp10) == Stripped(neg, lead, StripTrailingZeros(lead), exp10)

Finite(neg, digits, exp10) == Unpadded(neg, StripLeadingZeros(digits), exp10)

\* the exponent's digits as a number, saturated beyond the range of f64
SaturatedNat(sig) == IF Len(sig) > 4 THEN 10000 ELSE SmallNat(sig)
ExpValue(s) == SaturatedNat(StripLeadingZeros(s))

BadFloat == <<"Err", "invalid float literal">>

\* the exponent part of a float: body[expAt..], after a mantissa of n1
\* integer and n2 fraction digits
f64_exponent(neg, body, mantissa, n2, expAt, expDigits) ==
  IF expDigits = <<>> \/ ~IsDigitRun(expDigits) THEN BadFloat
  ELSE <<"Ok", Finite(neg, mantissa,
                      (IF body[expAt + 1] = "-" THEN 0 - ExpValue(expDigits)
                       ELSE ExpValue(expDigits)) - n2)>>

f64_tail(neg, body, mantissa, n2, expAt) ==
  IF expAt > Len(body) THEN <<"Ok", Finite(neg, mantissa, 0 - n2)>>
  ELSE IF body[expAt] \notin {"e", "E"} THEN BadFloat
  ELSE f64_exponent(neg, body, mantissa, n2, expAt,
                    Drop(body, IF expAt < Len(body) /\ body[expAt + 1] \in {"+", "-"}
                               THEN expAt + 1 ELSE expAt))

f64_fraction(neg, body, n1, fracAt, n2) ==
  IF n1 + n2 = 0 THEN BadFloat
  ELSE f64_tail(neg, body, SubSeq(body, 1, n1) \o SubSeq(body, fracAt, fracAt + n2 - 1),
                n2, fracAt + n2)

f64_mantissa(neg, body, n1) ==
  IF n1 < Len(body) /\ body[n1 + 1] = "."
  THEN f64_fraction(neg, body, n1, n1 + 2, CountWhile(body, n1 + 2, Range(DecDigits)))
  ELSE f64_fraction(neg, body, n1, n1 + 1, 0)

f64_unsigned(neg, body, lower) ==
  IF body = <<>> THEN BadFloat
  ELSE IF lower = <<"n", "a", "n">> THEN <<"Ok", NaN>>
  ELSE IF lower \in {<<"i", "n", "f">>, <<"i", "n", "f", "i", "n", "i", "t", "y">>}
    THEN <<"Ok", Infinity(neg)>>
  ELSE f64_mantissa(neg, body, CountWhile(body, 1, Range(DecDigits)))

f64_signed(neg, body) == f64_unsigned(neg, body, to_lowercase(body))

\* <<"Ok", double>> or <<"Err", "invalid float literal">>
f64_from_str(s) ==
  IF s # <<>> /\ s[1] \in {"+", "-"} THEN f64_signed(s[1] = "-", Tail(s))
  ELSE f64_signed(FALSE, s)

\* str::split('/')
RECURSIVE split_at(_, _)
split_at(s, k) ==
  IF k = Len(s) THEN <<s>>
  ELSE <<SubSeq(s, 1, k)>>
       \o split_at(Drop(s, k + 1), CountWhile(Drop(s, k + 1), 1, Range(s) \ {"/"}))
split_slash(s) == split_at(s, CountWhile(s, 1, Range(s) \ {"/"}))

AllFloats(parts) == \A k \in DOMAIN parts : f64_from_str(parts[k])[1] = "Ok"

(***************************************************************************)
(* Numbers: read_number                                                    *)
(***************************************************************************)
\* str::find('r') on the lowercased text: the 0-based index, -1 for None
\* char::len_utf8
len_utf8(c) == IF c = KELVIN THEN 3 ELSE 1

\* str::len, in bytes
RECURSIVE byte_len(_)
byte_len(s) == IF s = <<>> THEN 0 ELSE len_utf8(s[1]) + byte_len(Tail(s))

\* the number of characters of s before the byte offset b; -1 when b is not
\* a character boundary of s, where a slice panics
chars_before(s, b) ==
  IF \E j \in 0..Len(s) : byte_len(SubSeq(s, 1, j)) = b
  THEN CHOOSE j \in 0..Len(s) : byte_len(SubSeq(s, 1, j)) = b
  ELSE -1

\* `number.to_lowercase().find('r')`: a byte offset in the lowercase text
find_at(s, k) == IF k = Len(s) THEN -1 ELSE byte_len(SubSeq(to_lowercase(s), 1, k))
find_r(s) == find_at(s, CountWhile(to_lowercase(s), 1, Range(to_lowercase(s)) \ {"r"}))

\* `for _ in 0..n { number.remove(k) }`
RECURSIVE remove_times(_, _, _)
remove_times(s, k, n) == IF n = 0 THEN s ELSE remove_times(remove(s, k), k, n - 1)

NumRadix(n, r) == [err |-> None, number |-> n, radix |-> r]

\* the radix prefix parsed: radix is the result of parse::<u32>()
radix_checked(number, index, negative, radix) ==
  IF radix[1] = "Err"
    THEN [err |-> ParseEdn(radix[2], number, 0, 0), number |-> number, radix |-> 0]
  ELSE IF radix[2][3] > 0 \/ radix[2][4] < 2 \/ radix[2][4] > 36
    THEN [err |-> ParseEdn("Radix of {r} is out of bounds", <<>>, 0, radix[2]),
          number |-> number, radix |-> 0]
  ELSE IF negative THEN NumRadix(remove_times(number, 1, index), radix[2][4])
  ELSE NumRadix(remove_times(number, 0, index + 1), radix[2][4])

\* `number[1..index]` / `number[0..index]`, index a byte offset of number
radix_prefixed(number, index, negative) ==
  IF chars_before(number, index) = -1
  THEN [err |-> Panic, number |-> number, radix |-> 0]
  ELSE radix_checked(number, index, negative,
                     u32_from_str(SubSeq(number, IF negative THEN 2 ELSE 1,
                                         chars_before(number, index))))

radix_or_decimal(number, index) ==
  IF index >= 0 THEN radix_prefixed(number, index, starts_with(number, <<"-">>))
  ELSE NumRadix(number, 10)

number_with_lower(number, lower) ==
  IF starts_with(lower, <<"0", "x">>) THEN NumRadix(remove(remove(number, 0), 0), 16)
  ELSE IF starts_with(lower, <<"-", "0", "x">>) THEN NumRadix(remove(remove(number, 1), 1), 16)
  ELSE radix_or_decimal(number, find_r(number))

\* the (number, radix) of read_number for the collected text: a record
\* [err, number, radix]; err is None unless the radix prefix is rejected
number_and_radix(number) == number_with_lower(number, to_lowercase(number))

\* the last arms of read_number's match: rational, symbol, error
classify_rest(n, radix, i) ==
  IF contains(n, "/") /\ AllFloats(split_slash(n)) THEN Rational(n)
  ELSE IF Cardinality({k \in DOMAIN n : to_upper_char(n[k]) = "E"}) > 1
    THEN read_symbol(n[1], Tail(n), 1).res
  ELSE ParseEdn("{number} could not be parsed at char count {i} with radix {radix}", n, i, radix)

\* the match of read_number on (number, radix), given what the three
\* conversions return; i is the char count
classify_parsed(n, radix, i, f, u, s) ==
  IF (contains(n, "E") \/ contains(n, "e")) /\ f[1] = "Ok" THEN Double(f[2])
  ELSE IF u[1] = "Ok" THEN UInt(u[2])
  ELSE IF s[1] = "Ok" THEN EdnInt(s[2][1], s[2][2])
  ELSE IF f[1] = "Ok" THEN Double(f[2])
  ELSE classify_rest(n, radix, i)

classify_number(n, radix, i) ==
  classify_parsed(n, radix, i, f64_from_str(n),
                  u64_from_str_radix(n, radix), i64_from_str_radix(n, radix))

number_result(nr, i, p) ==
  IF nr.err # None THEN Ret(nr.err, p)
  ELSE Ret(classify_number(nr.number, nr.radix, i), p)

number_collected(n, t, p, c_len) ==
  number_result(
    number_and_radix((IF n # "+" THEN <<n>> ELSE <<>>) \o SubSeq(t, p, p + c_len - 1)),
    p - 1, p + c_len)

read_number(n, t, p) ==
  IF p > Len(t) THEN Ret(CouldNotIdentifyIndex, p)
  ELSE number_collected(n, t, p, CountWhile(t, p, SymbolChars(t)))

(***************************************************************************)
(* Display of a value, the text read_map stores as the key of an entry     *)
(***************************************************************************)
\* a u64 divided by ten: <<quotient, remainder>>
DivTen(l) ==
  LET r1 == l[1] % 10
      x2 == r1 * LimbBase + l[2]
      x3 == (x2 % 10) * LimbBase + l[3]
      x4 == (x3 % 10) * LimbBase + l[4]
  IN <<(<<l[1] \div 10, x2 \div 10, x3 \div 10, x4 \div 10>>), x4 % 10>>

RECURSIVE DecimalText(_)
DecimalText(l) ==
  IF DivTen(l)[1] = ZeroLimbs THEN <<DecDigits[DivTen(l)[2] + 1]>>
  ELSE Append(DecimalText(DivTen(l)[1]), DecDigits[DivTen(l)[2] + 1])

Zeros(n) == [i \in 1..n |-> "0"]

\* a double in positional notation
DoubleText(d) ==
  LET sign == IF d[2] THEN <<"-">> ELSE <<>>
      digits == d[3]
      e == d[4]
      point == Len(digits) + e
  IN IF d[1] = "nan" THEN <<"N", "a", "N">>
     ELSE IF d[1] = "inf" THEN sign \o <<"i", "n", "f">>
     ELSE IF digits = <<>> THEN <<"0">>
     ELSE IF e >= 0 THEN sign \o digits \o Zeros(e)
     ELSE IF point > 0 THEN sign \o SubSeq(digits, 1, point) \o <<".">> \o Drop(digits, point)
     ELSE sign \o <<"0", ".">> \o Zeros(0 - point) \o digits

RECURSIVE Display(_)
RECURSIVE DisplayAll(_)

\* the member a set's or a map's iterator yields first
PickMin(S) == CHOOSE x \in S : TRUE

RECURSIVE DisplaySet(_)
DisplaySet(S) ==
  IF S = {} THEN <<>>
  ELSE LET x == PickMin(S) IN
       Display(x) \o (IF S = {x} THEN <<>> ELSE <<SPACE>> \o DisplaySet(S \ {x}))

DisplayAll(items) ==
  IF items = <<>> THEN <<>>
  ELSE Display(items[1]) \o (IF Len(items) = 1 THEN <<>> ELSE <<SPACE>> \o DisplayAll(Tail(items)))

RECURSIVE DisplayEntries(_)
DisplayEntries(S) ==
  IF S = {} THEN <<>>
  ELSE LET x == PickMin(S) IN
       x[1] \o <<SPACE>> \o Display(x[2])
         \o (IF S = {x} THEN <<>> ELSE <<",", SPACE>> \o DisplayEntries(S \ {x}))

Display(v) ==
  CASE v[1] = "Nil" -> <<"n", "i", "l">>
    [] v[1] = "Empty" -> <<>>
    [] v[1] = "Bool" -> IF v[2] THEN <<"t", "r", "u", "e">> ELSE <<"f", "a", "l", "s", "e">>
    [] v[1] = "Str" -> <<QUOTE>> \o v[2] \o <<QUOTE>>
    [] v[1] = "Char" -> <<BACKSLASH, v[2]>>
    [] v[1] \in {"Symbol", "Key", "Rational"} -> v[2]
    [] v[1] = "UInt" -> DecimalText(v[2])
    [] v[1] = "Int" -> (IF v[2][1] THEN <<"-">> ELSE <<>>) \o DecimalText(v[2][2])
    [] v[1] = "Double" -> DoubleText(v[2])
    [] v[1] = "Inst" -> <<"#", "i", "n", "s", "t", SPACE, QUOTE>> \o v[2] \o <<QUOTE>>
    [] v[1] = "Uuid" -> <<"#", "u", "u", "i", "d", SPACE, QUOTE>> \o v[2] \o <<QUOTE>>
    [] v[1] = "Tagged" -> <<"#">> \o v[2][1] \o <<SPACE>> \o Display(v[2][2])
    [] v[1] = "Vector" -> <<"[">> \o DisplayAll(v[2]) \o <<"]">>
    [] v[1] = "List" -> <<"(">> \o DisplayAll(v[2]) \o <<")">>
    [] v[1] = "Set" -> <<"#", "{">> \o DisplaySet(v[2]) \o <<"}">>
    [] v[1] = "Map" -> <<"{">> \o DisplayEntries(v[2]) \o <<"}">>
    [] v[1] = "NamespacedMap" ->
         <<":">> \o v[2][1] \o <<"{">> \o DisplayEntries(v[2][2]) \o <<"}">>

(***************************************************************************)
(* The dispatcher and the readers of containers, tags and discards         *)
(***************************************************************************)
\* Option::None of chars.next()
NoChar == ""

\* chars.clone().next() and chars.next()
peek(t, p) == IF p <= Len(t) THEN t[p] ELSE NoChar
advance(t, p) == IF p <= Len(t) THEN p + 1 ELSE p

\* BTreeMap::insert on a map kept as a set of <<key text, value>> entries
\* map_insert keeping the value already stored under k
map_insert_keep_first(res, k, v) ==
  IF \E e \in res : e[1] = k THEN res ELSE res \cup {<<k, v>>}
map_insert(res, k, v) == {e \in res : e[1] # k} \cup {<<k, v>>}

NoneAt(i) == ParseEdn("None could not be parsed at char count", <<>>, i, 0)

RECURSIVE parse_internal(_, _, _)
RECURSIVE parse(_, _, _)
RECURSIVE read_if_not_container_end(_, _)
RECURSIVE tagged_or_set_or_discard(_, _)
RECURSIVE read_tagged(_, _)
RECURSIVE read_discard(_, _)
RECURSIVE read_seq_loop(_, _, _, _, _)
RECURSIVE read_set_loop(_, _, _, _)
RECURSIVE read_map_loop(_, _, _, _, _, _)

\* the text and end of an #inst / #uuid body read from position p
inst_body(t, p) ==
  LET from == p + CountWhile(t, p, {c \in Range(t) : c = QUOTE \/ is_whitespace(c)})
      len == CountWhile(t, from, Range(t) \ {QUOTE})
  IN Ret(SubSeq(t, from, from + len - 1), Min(from + len + 1, Len(t) + 1))

read_tagged(t, p) ==
  LET len == CountWhile(t, p, {c \in Range(t) : ~is_whitespace(c) /\ c # ","})
      tag == SubSeq(t, p, p + len - 1)
      after == Min(p + len + 1, Len(t) + 1)
      body == inst_body(t, after)
      inner == parse(peek(t, after), t, advance(t, after))
  IN IF starts_with(tag, <<"i", "n", "s", "t">>) THEN Ret(Inst(body.res), body.pos)
     ELSE IF starts_with(tag, <<"u", "u", "i", "d">>) THEN Ret(Uuid(body.res), body.pos)
     ELSE IF Aborts(inner.res) THEN inner
     ELSE Ret(Tagged(tag, inner.res), inner.pos)

read_discard(t, p) ==
  LET after == advance(t, p)
      inner == parse(peek(t, after), t, advance(t, after))
  IN IF after > Len(t) THEN Ret(CouldNotIdentifyIndex, after)
     ELSE IF Aborts(inner.res) THEN inner
     ELSE IF inner.res = Empty
       THEN Ret(ParseEdn("Discard sequence must have a following element at char count",
                         <<>>, after - 1, 0), inner.pos)
     ELSE read_if_not_container_end(t, inner.pos)

\* the loop of read_vec (close = "]") and of read_list (close = ")")
\* read_seq_loop putting each element in front of those read before it
read_seq_loop_prepend(t, p, res, i, close) ==
  IF p > Len(t) THEN Ret(NoneAt(i), p)
  ELSE IF t[p] = close THEN Ret(IF close = "]" THEN Vector(res) ELSE List(res), p + 1)
  ELSE LET e == parse_internal(t[p], t, p + 1) IN
       IF Aborts(e.res) THEN e
       ELSE read_seq_loop(t, e.pos, IF e.res = None THEN res ELSE <<e.res>> \o res, i, close)
read_seq_loop(t, p, res, i, close) ==
  IF p > Len(t) THEN Ret(NoneAt(i), p)
  ELSE IF t[p] = close THEN Ret(IF close = "]" THEN Vector(res) ELSE List(res), p + 1)
  ELSE LET e == parse_internal(t[p], t, p + 1) IN
       IF Aborts(e.res) THEN e
       ELSE read_seq_loop(t, e.pos, IF e.res = None THEN res ELSE Append(res, e.res), i, close)

read_vec(t, p) ==
  IF p > Len(t) THEN Ret(CouldNotIdentifyIndex, p)
  ELSE read_seq_loop(t, p, <<>>, p - 1, "]")

read_list(t, p) ==
  IF p > Len(t) THEN Ret(CouldNotIdentifyIndex, p)
  ELSE read_seq_loop(t, p, <<>>, p - 1, ")")

read_set_loop(t, p, res, i) ==
  IF p > Len(t) THEN Ret(NoneAt(i), p)
  ELSE IF t[p] = "}" THEN Ret(Set(res), p + 1)
  ELSE LET e == parse_internal(t[p], t, p + 1) IN
       IF Aborts(e.res) THEN e
       ELSE read_set_loop(t, e.pos, IF e.res = None THEN res ELSE res \cup {e.res}, i)

read_set(t, p) ==
  LET after == advance(t, p) IN
  IF after > Len(t) THEN Ret(CouldNotIdentifyIndex, after)
  ELSE read_set_loop(t, after, {}, after - 1)

\* the loop of read_map (ns = None) and of read_namespaced_map; key is the
\* pending key, None when the next form read is a key
read_map_loop(t, p, res, key, i, ns) ==
  IF p > Len(t) THEN Ret(NoneAt(i), p)
  ELSE IF t[p] = "}"
    THEN Ret(IF ns = None THEN Map(res) ELSE NamespacedMap(ns, res), p + 1)
  ELSE IF key # None
    THEN LET val == parse(t[p], t, p + 1) IN
         IF Aborts(val.res) THEN val
         ELSE read_map_loop(t, val.pos, map_insert(res, Display(key), val.res), None, i, ns)
  ELSE LET k == parse_internal(t[p], t, p + 1) IN
       IF Aborts(k.res) THEN k
       ELSE read_map_loop(t, k.pos, res, k.res, i, ns)

read_map(t, p) ==
  IF p > Len(t) THEN Ret(CouldNotIdentifyIndex, p)
  ELSE read_map_loop(t, p, {}, None, p - 1, None)

\* read_namespaced_map keeping the leading colon in the namespace
read_namespaced_map_with_colon(t, p) ==
  LET len == CountWhile(t, p, Range(t) \ {"{"})
      namespace == SubSeq(t, p - 1, p + len - 1)
  IN IF p > Len(t) THEN Ret(CouldNotIdentifyIndex, p)
     ELSE read_map_loop(t, Min(p + len + 1, Len(t) + 1), {}, None, p - 1, namespace)
read_namespaced_map(t, p) ==
  LET len == CountWhile(t, p, Range(t) \ {"{"})
      namespace == SubSeq(t, p, p + len - 1)
  IN IF p > Len(t) THEN Ret(CouldNotIdentifyIndex, p)
     ELSE read_map_loop(t, Min(p + len + 1, Len(t) + 1), {}, None, p - 1, namespace)

read_key_or_nsmap(t, p) ==
  LET c_len == CountWhile(t, p, {c \in Range(t) : IsKeyChar(c)}) IN
  IF \E k \in p..(p + c_len - 1) : t[k] = "{"
  THEN read_namespaced_map(t, p)
  ELSE read_key(t, p, c_len)

tagged_or_set_or_discard(t, p) ==
  CASE peek(t, p) = "{" -> read_set(t, p)
    [] peek(t, p) = "_" -> read_discard(t, p)
    [] OTHER -> read_tagged(t, p)

parse_edn(c, t, p) ==
  CASE c = NoChar -> Ret(ParseEdn("Edn could not be parsed", <<>>, 0, 0), p)
    [] c = QUOTE -> read_str(t, p)
    [] c = ":" -> read_key_or_nsmap(t, p)
    [] is_numeric(c) -> read_number(c, t, p)
    [] c \in {"-", "+"} /\ is_numeric(peek(t, p)) -> read_number(c, t, p)
    [] c = BACKSLASH -> read_char(t, p)
    [] c \in {"t", "f", "n"} -> read_bool_or_nil(c, t, p)
    [] OTHER -> read_symbol(c, t, p)

read_if_not_container_end(t, p) ==
  IF p > Len(t) \/ t[p] \in {"]", ")", "}"} THEN Ret(None, p)
  ELSE parse_internal(t[p], t, p + 1)

parse_internal(c, t, p) ==
  CASE c = "[" -> read_vec(t, p)
    [] c = "(" -> read_list(t, p)
    [] c = "#" -> tagged_or_set_or_discard(t, p)
    [] c = "{" -> read_map(t, p)
    [] c = ";" ->
         read_if_not_container_end(
           t, Min(p + CountWhile(t, p, Range(t) \ {NEWLINE}) + 1, Len(t) + 1))
    [] c # NoChar /\ (is_whitespace(c) \/ c = ",") -> read_if_not_container_end(t, p)
    [] c = NoChar -> Ret(None, p)
    [] OTHER -> parse_edn(c, t, p)

parse(c, t, p) ==
  LET r == parse_internal(c, t, p) IN
  IF r.res = None THEN Ret(Empty, r.pos) ELSE r

\* the caller's `parse(chars.next(), &mut chars)` on a fresh cursor
parse_text(t) == parse(peek(t, 1), t, advance(t, 1))

(***************************************************************************)
(* Navigation: Index<usize> and Index<&str> of Edn                         *)
(***************************************************************************)
\* the value stored under the key text k, Nil when there is none
Lookup(entries, k) ==
  IF \E e \in entries : e[1] = k
  THEN (CHOOSE e \in entries : e[1] = k)[2]
  ELSE Nil

\* edn[k] for a string k: maps by key text, namespaced maps by the bare key
\* and by `namespace/key`
index_str(v, k) ==
  CASE v[1] = "Map" -> Lookup(v[2], k)
    [] v[1] = "NamespacedMap" ->
         IF \E e \in v[2][2] : e[1] = k THEN Lookup(v[2][2], k)
         ELSE IF starts_with(k, v[2][1] \o <<"/">>)
         THEN Lookup(v[2][2], Drop(k, Len(v[2][1]) + 1))
         ELSE Nil
    [] OTHER -> Nil

\* edn[n] for an integer n: vectors and lists by position, maps by the
\* decimal text of n
index_int(v, n) ==
  CASE v[1] \in {"Vector", "List"} -> IF n < Len(v[2]) THEN v[2][n + 1] ELSE Nil
    [] v[1] \in {"Map", "NamespacedMap"} -> index_str(v, DecimalText(U64(n)))
    [] OTHER -> Nil

(***************************************************************************)
(* Deserialize                                                             *)
(***************************************************************************)
\* the target types: (), String, Option<T>, HashMap<String, T>,
\* BTreeMap<String, T>, and the field `from_edn(&edn[k])` of a record
UNIT == <<"unit">>
STRING_T == <<"String">>
OptionOf(T) == <<"Option", T>>
HashMapOf(T) == <<"HashMap", T>>
BTreeMapOf(T) == <<"BTreeMap", T>>
FieldOf(k, T) == <<"Field", k, T>>

\* Result<T, Error>, and the panic of an `unwrap` on an Err
Ok(x) == <<"Ok", x>>
Failed(e) == <<"Failed", e>>
NotConverted == <<"NotConverted", <<>>>>
Some(x) == <<"Some", x>>

IsOk(r) == r[1] = "Ok"

\* Error::Deserialize("couldn't convert `edn` into `type_`"), edn shown by
\* its Display
build_deserialize_error(edn, type_) == <<"Deserialize", <<Display(edn), type_>>>>

\* Edn::map_iter: the entries of a map or of a namespaced map
map_iter(edn) == IF edn[1] = "Map" THEN edn[2] ELSE edn[2][2]

\* s.replace('"', "")
RECURSIVE remove_quotes(_)
remove_quotes(s) ==
  IF s = <<>> THEN <<>>
  ELSE (IF s[1] = QUOTE THEN <<>> ELSE <<s[1]>>) \o remove_quotes(Tail(s))

\* the fixed-width integer types: i8, i16, i64 (and isize) as IntOf(w),
\* u8, u16, u64 (and usize) as UintOf(w)
IntOf(w) == <<"int", w>>
UintOf(w) == <<"uint", w>>

\* Edn::to_int as an Option<i64> and Edn::to_uint as an Option<u64>; a
\* signed number is <<negative, magnitude>>
to_int(edn) ==
  CASE edn[1] = "Int" -> Some(edn[2])
    [] edn[1] = "UInt" ->
         IF edn[2][1] < LimbBase \div 2 THEN Some(<<FALSE, edn[2]>>) ELSE None
    [] edn[1] = "Str" ->
         IF i64_from_str_radix(edn[2], 10)[1] = "Ok"
         THEN Some(i64_from_str_radix(edn[2], 10)[2]) ELSE None
    [] OTHER -> None

to_uint(edn) ==
  CASE edn[1] = "UInt" -> Some(edn[2])
    [] edn[1] = "Int" -> IF edn[2][1] THEN None ELSE Some(edn[2][2])
    [] edn[1] = "Str" ->
         IF u64_from_str_radix(edn[2], 10)[1] = "Ok"
         THEN Some(u64_from_str_radix(edn[2], 10)[2]) ELSE None
    [] OTHER -> None

\* the signed number of a small integer
Signed(n) == IF n < 0 THEN <<TRUE, U64(0 - n)>> ELSE <<FALSE, U64(n)>>

\* the two's complement bit pattern, w bits wide, of a signed number
low_bits(neg, limbs, w) ==
  IF neg THEN (2^w - (limbs[4] % 2^w)) % 2^w ELSE limbs[4] % 2^w

\* the number a bit pattern of w bits stands for in a signed type
sign_extend(bits, w) == IF bits >= 2^(w - 1) THEN bits - 2^w ELSE bits

\* `u as $name`: the cast keeps the low w bits of the number
cast(x, T) ==
  IF T[2] = 64 THEN Ok(x)
  ELSE IF T[1] = "int" THEN Ok(Signed(sign_extend(low_bits(x[1], x[2], T[2]), T[2])))
  ELSE Ok(Signed(low_bits(x[1], x[2], T[2])))

deserialize_int(T, edn) ==
  IF to_int(edn) = None THEN Failed(build_deserialize_error(edn, <<"int">>))
  ELSE cast(to_int(edn)[2], T)

deserialize_uint(T, edn) ==
  IF to_uint(edn) = None THEN Failed(build_deserialize_error(edn, <<"uint">>))
  ELSE cast(<<FALSE, to_uint(edn)[2]>>, T)

deserialize_unit(edn) ==
  IF edn[1] = "Nil" THEN Ok(<<>>) ELSE Failed(build_deserialize_error(edn, UNIT))

deserialize_string(edn) ==
  IF edn[1] = "Str"
  THEN IF starts_with(edn[2], <<QUOTE>>) THEN Ok(remove_quotes(edn[2])) ELSE Ok(edn[2])
  ELSE Ok(Display(edn))

\* Ok(Some(from_edn(&edn)?)) around the conversion r of the inner type
\* some_or_error turning a failed conversion into None
some_or_none(r) == IF IsOk(r) THEN Ok(Some(r[2])) ELSE Ok(None)
some_or_error(r) == IF IsOk(r) THEN Ok(Some(r[2])) ELSE r

\* the mapping collected from the converted entries, every conversion
\* unwrapped; prefix is put before each key
collect_map(converted_entries, prefix) ==
  IF \E e \in converted_entries : ~IsOk(e[2]) THEN Panic
  ELSE Ok({ <<prefix \o e[1], e[2][2]>> : e \in converted_entries })

RECURSIVE deserialize(_, _)
\* deserialize_map leaving the namespace out of the keys
deserialize_map_bare_keys(T, edn) ==
  CASE edn[1] \in {"Map", "NamespacedMap"} ->
         collect_map({ <<e[1], deserialize(T[2], e[2])>> : e \in map_iter(edn) }, <<>>)
    [] OTHER -> Failed(build_deserialize_error(edn, T))
deserialize_map(T, edn) ==
  CASE edn[1] = "Map" ->
         collect_map({ <<e[1], deserialize(T[2], e[2])>> : e \in map_iter(edn) }, <<>>)
    [] edn[1] = "NamespacedMap" ->
         collect_map({ <<e[1], deserialize(T[2], e[2])>> : e \in map_iter(edn) },
                     edn[2][1] \o <<"/">>)
    [] OTHER -> Failed(build_deserialize_error(edn, T))

\* T::deserialize(edn)
deserialize(T, edn) ==
  CASE T = UNIT -> deserialize_unit(edn)
    [] T = STRING_T -> deserialize_string(edn)
    [] T[1] = "int" -> deserialize_int(T, edn)
    [] T[1] = "uint" -> deserialize_uint(T, edn)
    [] T[1] = "Option" ->
         IF edn[1] = "Nil" THEN Ok(None) ELSE some_or_error(deserialize(T[2], edn))
    [] T[1] \in {"HashMap", "BTreeMap"} -> deserialize_map(T, edn)
    [] T[1] = "Field" -> deserialize(T[3], index_str(edn, T[2]))

(***************************************************************************)
(* The machine: the caller assembles a text and hands it to parse          *)
(***************************************************************************)
RECURSIVE Join(_, _)
Join(ps, g) ==
  IF ps = <<>> THEN <<>>
  ELSE IF Len(ps) = 1 THEN ps[1]
  ELSE ps[1] \o g \o Join(Tail(ps), g)

\* the input text
text == Join(pieces, gap)

RECURSIVE SeqsUpTo(_, _)
SeqsUpTo(S, n) ==
  IF n = 0 THEN {<<>>}
  ELSE LET shorter == SeqsUpTo(S, n - 1) IN
       shorter \cup {Append(s, c) : s \in {x \in shorter : Len(x) = n - 1}, c \in S}

\* ---- inputs of Spec: forms, separators, comments, discards ----
MaxPieces == 3

COMMENT == <<";", "c", NEWLINE>>
OPEN_COMMENT == <<";", "c">>
DISCARD == <<"#", "_">>
INST == <<"#", "i", "n", "s", "t">>

\* no number was encoded
NoNumber == <<>>

\* pieces that are complete values
ValuePieces ==
  { <<"5">>, <<"4", "2">>, <<"a", "b">>, <<":", "k">>, <<QUOTE, "s", QUOTE>>,
    <<"[", "5", SPACE, "a", "b", "]">>, <<"{", ":", "k", SPACE, "5", "}">> }

\* pieces that read as whitespace
BlankPieces == { <<",">>, COMMENT, OPEN_COMMENT }

Pieces ==
  ValuePieces \cup BlankPieces \cup
  { DISCARD, INST, <<"#", "t">>, <<"[">>, <<"]">>, <<"{">>, <<"}">>, <<":", "n", "{">> }

Gaps == { <<SPACE>>, <<SPACE, SPACE>>, <<",", SPACE>> }

Init ==
  /\ pieces \in SeqsUpTo(Pieces, MaxPieces)
  /\ gap \in Gaps
  /\ pc = "ready"
  /\ result = None
  /\ cursor = 1
  /\ encoded = NoNumber
  /\ target = UNIT
  /\ converted = NotConverted

\* Edn::from_str / the tests' `parse(edn.next(), &mut edn)`
Parse ==
  /\ pc = "ready"
  /\ LET r == parse_text(text) IN
       /\ result' = r.res
       /\ cursor' = r.pos
  /\ pc' = "done"
  /\ UNCHANGED <<pieces, gap, encoded, target, converted>>

\* from_str's second step, `from_edn(&edn)`, after `Edn::from_str(s)?`
FromEdn ==
  /\ pc = "done"
  /\ converted' = IF IsErr(result) THEN Failed(result)
                ELSE IF result = Panic THEN Panic
                ELSE deserialize(target, result)
  /\ pc' = "converted"
  /\ UNCHANGED <<pieces, gap, result, cursor, encoded, target>>

Next == Parse \/ FromEdn

Spec == Init /\ [][Next]_vars

\* ---- inputs of SpecStr: an opening quote and what follows it ----
MaxStrLen == 4

StrAlphabet == {QUOTE, BACKSLASH, "t", "r", "n", "g"}

InitStr ==
  /\ pieces \in {<< <<QUOTE>> \o body >> : body \in SeqsUpTo(StrAlphabet, MaxStrLen)}
  /\ gap = <<SPACE>>
  /\ pc = "ready"
  /\ result = None
  /\ cursor = 1
  /\ encoded = NoNumber
  /\ target = UNIT
  /\ converted = NotConverted

SpecStr == InitStr /\ [][Next]_vars

\* ---- inputs of SpecNum: one integer token ----
\* the digit of value d
DigitChar(d, upper) ==
  IF d < 10 THEN DecDigits[d + 1]
  ELSE IF upper THEN UpperLetters[d - 9] ELSE LowerLetters[d - 9]

\* the digits of n in base r, most significant first
RECURSIVE RadixDigits(_, _, _)
RadixDigits(n, r, upper) ==
  IF n < r THEN <<DigitChar(n, upper)>>
  ELSE Append(RadixDigits(n \div r, r, upper), DigitChar(n % r, upper))

\* the value of hexadecimal digits, least significant last
RECURSIVE HexValue(_)
HexValue(ds) ==
  IF ds = <<>> THEN 0
  ELSE 16 * HexValue(SubSeq(ds, 1, Len(ds) - 1))
       + (CHOOSE d \in 0..15 : ds[Len(ds)] \in {DigitChar(d, TRUE), DigitChar(d, FALSE)})

MaxRadixValue == 440
MaxDecimalValue == 120
MaxHexLen == 3

Radixes == 2..36
HexAlphabet == {"0", "1", "9", "a", "e", "E", "F"}
Signs == {<<>>, <<"+">>, <<"-">>}

\* what the caller encodes: the form, the sign written, the magnitude as a
\* u64, and the token
Number(form, sign, limbs, token) ==
  [form |-> form, sign |-> sign, limbs |-> limbs, token |-> sign \o token]

RadixNumbers ==
  { Number("radix", sign, U64(n),
           RadixDigits(r, 10, FALSE) \o <<"r">> \o RadixDigits(n, r, upper)) :
      sign \in {<<>>, <<"-">>}, n \in 0..MaxRadixValue, r \in Radixes, upper \in BOOLEAN }

HexNumbers ==
  { Number("hex", sign, U64(HexValue(ds)), <<"0", x>> \o ds) :
      sign \in Signs, x \in {"x", "X"},
      ds \in SeqsUpTo(HexAlphabet, MaxHexLen) \ {<<>>} }

\* 2^64 - 1, 2^63 and 2^63 - 1
U64_MAX == <<65535, 65535, 65535, 65535>>
I64_MIN_MAGNITUDE == <<32768, 0, 0, 0>>
I64_MAX == <<32767, 65535, 65535, 65535>>

DecimalNumbers ==
  { Number("decimal", sign, U64(n), RadixDigits(n, 10, FALSE)) :
      sign \in Signs, n \in 0..MaxDecimalValue }
  \cup
  { Number("decimal", <<>>, U64_MAX,
           <<"1","8","4","4","6","7","4","4","0","7","3","7","0","9","5","5","1","6","1","5">>),
    Number("decimal", <<"+">>, I64_MAX,
           <<"9","2","2","3","3","7","2","0","3","6","8","5","4","7","7","5","8","0","7">>),
    Number("decimal", <<"-">>, I64_MAX,
           <<"9","2","2","3","3","7","2","0","3","6","8","5","4","7","7","5","8","0","7">>),
    Number("decimal", <<"-">>, I64_MIN_MAGNITUDE,
           <<"9","2","2","3","3","7","2","0","3","6","8","5","4","7","7","5","8","0","8">>),
    Number("decimal", <<>>, U64(7), <<"0", "0", "7">>) }

InitNum ==
  /\ encoded \in RadixNumbers \cup HexNumbers \cup DecimalNumbers
  /\ pieces = <<encoded.token>>
  /\ target = UNIT
  /\ converted = NotConverted
  /\ gap = <<SPACE>>
  /\ pc = "ready"
  /\ result = None
  /\ cursor = 1

SpecNum == InitNum /\ [][Next]_vars

\* the integer value a token of the given sign and magnitude denotes
IntegerOf(sign, limbs) ==
  IF sign = <<"-">> THEN EdnInt(limbs /= ZeroLimbs, limbs) ELSE UInt(limbs)

(***************************************************************************)
(* Strings against a reference decoder                                     *)
(***************************************************************************)
\* the character at i follows an odd run of backslashes
Escaped(t, i) ==
  LET run == CHOOSE n \in 0..(i - 1) :
               /\ \A j \in (i - n)..(i - 1) : t[j] = BACKSLASH
               /\ (i - n - 1 >= 1 => t[i - n - 1] /= BACKSLASH)
  IN run % 2 = 1

RefEscapes == {"t", "r", "n", BACKSLASH, QUOTE}

RefDecodeChar(c) ==
  IF c = "t" THEN TAB ELSE IF c = "r" THEN CR ELSE IF c = "n" THEN NEWLINE ELSE c

\* where the reference stops in the text after the opening quote at 1:
\* at the first unescaped quote or the first escaped character that is no escape
RefStops(t) ==
  { i \in 2..Len(t) : \/ t[i] = QUOTE /\ ~Escaped(Drop(t, 1), i - 1)
                      \/ Escaped(Drop(t, 1), i - 1) /\ t[i] \notin RefEscapes }

RECURSIVE RefDecode(_, _, _)
RefDecode(t, i, last) ==
  IF i > last THEN <<>>
  ELSE IF t[i] = BACKSLASH /\ ~Escaped(Drop(t, 1), i - 1) THEN RefDecode(t, i + 1, last)
  ELSE IF Escaped(Drop(t, 1), i - 1) THEN <<RefDecodeChar(t[i])>> \o RefDecode(t, i + 1, last)
  ELSE <<t[i]>> \o RefDecode(t, i + 1, last)

RefStopAt(t, i) ==
  IF t[i] = QUOTE
  THEN Ret(Str(RefDecode(t, 2, i - 1)), i + 1)
  ELSE Ret(ParseEdn("Invalid escape sequence \\", <<t[i]>>, 0, 0), i + 1)

RefStr(t) ==
  IF RefStops(t) = {}
  THEN Ret(ParseEdn("Unterminated string", <<>>, 0, 0), Len(t) + 1)
  ELSE RefStopAt(t, CHOOSE i \in RefStops(t) : \A j \in RefStops(t) : i <= j)

\* C8: on every text after an opening quote the string reader returns what
\* the reference returns: Str of the decoded text up to the first unescaped
\* quote with that quote consumed, "Invalid escape sequence \x" at the first
\* backslash followed by another character x, "Unterminated string" when the
\* input ends first.
C8_StringReaderMatchesReference ==
  pc = "done" =>
    /\ result = RefStr(text).res
    /\ (IsValue(result) => cursor = RefStr(text).pos)

\* a string holding two decoded escapes and a copied character was read
C8_Witness ==
  /\ pc = "done"
  /\ text = <<QUOTE, BACKSLASH, "r", "g", QUOTE>>
  /\ result = Str(<<CR, "g">>)
  /\ cursor = 6

(***************************************************************************)
(* Discards, comments and separators                                       *)
(***************************************************************************)
\* C1: for a value text Y and a well-formed input X, parse("#_ Y X") returns
\* what parse(X) returns when X alone parses to a value, and Ok(Empty) when
\* nothing follows Y.
C1_DiscardNeutrality ==
  (/\ pc = "done"
   /\ Len(pieces) >= 2
   /\ pieces[1] = DISCARD
   /\ \A k \in 2..Len(pieces) : pieces[k] \in ValuePieces)
  => IF Len(pieces) = 2
     THEN result = Empty
     ELSE IsValue(parse_text(Join(Drop(pieces, 2), gap)).res)
            => result = parse_text(Join(Drop(pieces, 2), gap)).res

\* the pieces without the k-th
Without(ps, k) == SubSeq(ps, 1, k - 1) \o Drop(ps, k)

\* sequences of complete forms: values, `#inst` before a string, a tag or
\* a discard marker before a value
RECURSIVE WellFormed(_)
WellFormed(ps) ==
  IF ps = <<>> THEN TRUE
  ELSE IF ps[1] = INST
  THEN Len(ps) >= 2 /\ ps[2] = <<QUOTE, "s", QUOTE>> /\ WellFormed(Drop(ps, 2))
  ELSE IF ps[1] \in {<<"#", "t">>, DISCARD}
  THEN Len(ps) >= 2 /\ ps[2] \in ValuePieces /\ WellFormed(Drop(ps, 2))
  ELSE ps[1] \in ValuePieces /\ WellFormed(Tail(ps))

\* C2: when a well-formed input parses to a value, the same input with a line comment
\* `;...\n` inserted between two adjacent tokens (also between `#tag`,
\* `#inst` or `#uuid` and the tagged form) parses to the same result.
C2_CommentNeutrality ==
  pc = "done" =>
    \A k \in 2..(Len(pieces) - 1) :
      (/\ pieces[k] = COMMENT
       /\ WellFormed(Without(pieces, k))
       /\ IsValue(parse_text(Join(Without(pieces, k), gap)).res))
      => result = parse_text(Join(Without(pieces, k), gap)).res

\* the separators that differ from g in one position, a comma for a
\* whitespace character or a space for a comma
CommaSwaps(g) ==
  { [g EXCEPT ![i] = IF g[i] = "," THEN SPACE ELSE ","] : i \in 1..Len(g) }

\* the text of ps separated by g, with g2 in place of the k-th separator
RECURSIVE JoinAt(_, _, _, _)
JoinAt(ps, g, k, g2) ==
  IF Len(ps) <= 1 THEN Join(ps, g)
  ELSE ps[1] \o (IF k = 1 THEN g2 ELSE g) \o JoinAt(Tail(ps), g, k - 1, g2)

\* C3: in a well-formed input, replacing one whitespace character that
\* separates two tokens by a comma, or one such comma by a space, does not
\* change the parse result, in every position including after `#inst`,
\* `#uuid` and a tag name.
C3_CommasAreWhitespace ==
  pc = "done" =>
    \A k \in 1..(Len(pieces) - 1) : \A g2 \in CommaSwaps(gap) :
      WellFormed(pieces) => result = parse_text(JoinAt(pieces, gap, k, g2)).res

\* texts made only of separators, commas, line comments and complete
\* discard forms `#_ value`
RECURSIVE OnlyBlanksAndDiscards(_)
OnlyBlanksAndDiscards(ps) ==
  IF ps = <<>> THEN TRUE
  ELSE IF ps[1] \in BlankPieces THEN OnlyBlanksAndDiscards(Tail(ps))
  ELSE /\ ps[1] = DISCARD
       /\ Len(ps) >= 2
       /\ ps[2] \in ValuePieces
       /\ OnlyBlanksAndDiscards(Drop(ps, 2))

\* C4: a text that consists only of whitespace, commas, line comments
\* (closed by a newline or by end of input) and complete discard forms
\* parses to Ok(Empty), never to an error.
C4_OnlyBlanksParseToEmpty ==
  (pc = "done" /\ OnlyBlanksAndDiscards(pieces)) => result = Empty

MapOpeners == { <<"{">>, <<":", "n", "{">> }

\* C9: a map or namespaced map literal holding an odd number of forms
\* between `{` and `}`, so that `}` comes after a key without a value, is a
\* parse error and never a map.
C9_OddMapIsError ==
  (/\ pc = "done"
   /\ Len(pieces) = 3
   /\ pieces[1] \in MapOpeners
   /\ pieces[2] \in ValuePieces
   /\ pieces[3] = <<"}">>)
  => IsErr(result)

\* the index of the character right after the k-th piece
IndexAfter(ps, g, k) == Len(Join(SubSeq(ps, 1, k), g))

DiscardWithoutElement(N) ==
  ParseEdn("Discard sequence must have a following element at char count", <<>>, N, 0)

\* the k-th piece is a discard marker at the top level that only blanks follow
DiscardThenEnd(ps, k) ==
  /\ k = 1
  /\ ps[k] = DISCARD
  /\ \A j \in (k + 1)..Len(ps) : ps[j] \in BlankPieces

\* the k-th piece is a discard marker inside a vector that only blanks
\* separate from the closing bracket
DiscardThenClose(ps, k) ==
  /\ k = 2
  /\ ps[1] = <<"[">>
  /\ ps[k] = DISCARD
  /\ Len(ps) > k
  /\ ps[Len(ps)] = <<"]">>
  /\ \A j \in (k + 1)..(Len(ps) - 1) : ps[j] \in BlankPieces

\* C10: when `#_` is followed by no value (only whitespace, commas or
\* comments before end of input or before the closing delimiter of the
\* enclosing container, or nothing at all), parse returns the error "Discard
\* sequence must have a following element at char count N" with N the index
\* of the position right after `#_`.
C10_DiscardWithoutElement ==
  pc = "done" =>
    \A k \in 1..Len(pieces) :
      (DiscardThenEnd(pieces, k) \/ DiscardThenClose(pieces, k))
      => result = DiscardWithoutElement(IndexAfter(pieces, gap, k))

(***************************************************************************)
(* Integer tokens                                                          *)
(***************************************************************************)
\* C5: for every radix r in 2..36 and integer n, the token made of the
\* decimal text of r, the letter `r` and the digits of |n| in base r (upper
\* or lower case, `-` in front when n is negative) parses to UInt(n) when n
\* is non-negative and to Int(n) when n is negative.
C5_RadixRoundTrip ==
  (/\ pc = "done"
   /\ encoded.form = "radix"
   /\ (encoded.sign = <<"-">> => encoded.limbs /= ZeroLimbs))
  => result = IntegerOf(encoded.sign, encoded.limbs)

\* C6: a token `0x` or `0X`, optionally after `-` or `+`, followed only by
\* hexadecimal digits parses to the integer those digits denote in base 16
\* (UInt, or Int when negative), never to a Double, Rational or Symbol.
C6_HexPriority ==
  (/\ pc = "done"
   /\ encoded.form = "hex"
   /\ (encoded.sign = <<"-">> => encoded.limbs /= ZeroLimbs))
  => result = IntegerOf(encoded.sign, encoded.limbs)

\* C7: a decimal integer token without `-` and of value at most 2^64 - 1
\* parses to UInt(value), a leading `+` being ignored, and a decimal integer
\* token with a leading `-` and of value at least -2^63 parses to Int(value).
C7_IntegerVariant ==
  (pc = "done" /\ encoded.form = "decimal")
  => result = IntegerOf(encoded.sign, encoded.limbs)

(***************************************************************************)
(* Containers left open at end of input                                    *)
(***************************************************************************)
\* ---- inputs of SpecOpen: opening delimiters, forms, one closing bracket ----
Openers == { <<"[">>, <<"(">>, <<"#", "{">>, <<"{">>, <<":", "n", "{">> }

OpenPieces ==
  Openers \cup { DISCARD, COMMENT, <<"]">>, <<"4", "2">>, <<":", "k">>, <<"5">> }

InitOpen ==
  /\ pieces \in SeqsUpTo(OpenPieces, MaxPieces)
  /\ gap \in Gaps
  /\ pc = "ready"
  /\ result = None
  /\ cursor = 1
  /\ encoded = NoNumber
  /\ target = UNIT
  /\ converted = NotConverted

SpecOpen == InitOpen /\ [][Next]_vars

\* no stack: the pieces are not nested properly
BadNesting == <<0>>

\* the indices, outermost first, of the opening pieces of ps that are still
\* open after its last piece; a discard marker must stand before a form
RECURSIVE OpenStack(_, _, _)
OpenStack(ps, k, stack) ==
  IF k > Len(ps) THEN stack
  ELSE IF ps[k] \in Openers THEN OpenStack(ps, k + 1, Append(stack, k))
  ELSE IF ps[k] = <<"]">>
  THEN IF stack /= <<>> /\ ps[stack[Len(stack)]] = <<"[">>
       THEN OpenStack(ps, k + 1, SubSeq(stack, 1, Len(stack) - 1))
       ELSE BadNesting
  ELSE IF ps[k] = DISCARD /\ (k = Len(ps) \/ ps[k + 1] \in {COMMENT, <<"]">>, DISCARD})
  THEN BadNesting
  ELSE OpenStack(ps, k + 1, stack)

\* the input starts with a container, possibly discarded, that stays open
EndsInside(ps) ==
  /\ OpenStack(ps, 1, <<>>) \notin {<<>>, BadNesting}
  /\ \/ OpenStack(ps, 1, <<>>)[1] = 1
     \/ ps[1] = DISCARD /\ OpenStack(ps, 1, <<>>)[1] = 2

Innermost(ps) == OpenStack(ps, 1, <<>>)[Len(OpenStack(ps, 1, <<>>))]

\* C11: when the input ends inside a vector, list, set, map or namespaced
\* map (also one inside a discard form), parse returns the error "None could
\* not be parsed at char count N", N being the index of the first character
\* after the opening delimiter of the innermost container left open.
C11_EndInsideContainer ==
  (pc = "done" /\ EndsInside(pieces))
  => result = NoneAt(IndexAfter(pieces, gap, Innermost(pieces)))

(***************************************************************************)
(* Tagged forms                                                            *)
(***************************************************************************)
\* ---- inputs of SpecTag: `#name form`, alone, in a vector or as a map value ----
STR_S == <<QUOTE, "s", QUOTE>>

TagNames ==
  { <<>>, <<"t">>, <<"a", "b">>, <<"a", "/", "b">>, <<"i", "n">>,
    <<"i", "n", "s", "t">>, <<"u", "u", "i", "d">>,
    <<"i", "n", "s", "t", "a", "n", "t">>, <<"u", "u", "i", "d", "s">> }

TagForms == { STR_S, <<"4", "2">>, <<":", "k">>, <<"[", "5", SPACE, "a", "b", "]">> }

TaggedPieces ==
  { << <<"#">> \o name, form >> : name \in TagNames, form \in TagForms }

InitTag ==
  /\ pieces \in TaggedPieces
              \cup { << <<"[">> >> \o tf \o << <<"]">> >> : tf \in TaggedPieces }
              \cup { << <<"{">>, <<":", "k">> >> \o tf \o << <<"}">> >> : tf \in TaggedPieces }
  /\ gap \in Gaps
  /\ pc = "ready"
  /\ result = None
  /\ cursor = 1
  /\ encoded = NoNumber
  /\ target = UNIT
  /\ converted = NotConverted

SpecTag == InitTag /\ [][Next]_vars

\* C12: `#inst "s"` parses to Inst(s) and `#uuid "s"` to Uuid(s); for every
\* other tag name t, also one that only begins with `inst` or `uuid`,
\* `#t form` parses to Tagged(t, v) with v the parse of the form.
C12_OnlyInstAndUuidSpecial ==
  (pc = "done" /\ Len(pieces) = 2 /\ Len(pieces[1]) > 1)
  => IF Tail(pieces[1]) = <<"i", "n", "s", "t">>
     THEN pieces[2] = STR_S => result = Inst(<<"s">>)
     ELSE IF Tail(pieces[1]) = <<"u", "u", "i", "d">>
     THEN pieces[2] = STR_S => result = Uuid(<<"s">>)
     ELSE result = Tagged(Tail(pieces[1]), parse_text(pieces[2]).res)

\* the tags of all Tagged values inside v, v included
RECURSIVE TagsOf(_)
TagsOfAll(vs) == UNION { TagsOf(x) : x \in vs }
TagsOf(v) ==
  CASE v[1] = "Tagged" -> {v[2][1]} \cup TagsOf(v[2][2])
    [] v[1] \in {"Vector", "List"} -> TagsOfAll(Range(v[2]))
    [] v[1] = "Set" -> TagsOfAll(v[2])
    [] v[1] = "Map" -> TagsOfAll({e[2] : e \in v[2]})
    [] v[1] = "NamespacedMap" -> TagsOfAll({e[2] : e \in v[2][2]})
    [] OTHER -> {}

\* C13: in every Tagged(t, v) inside a value returned by parse, at any
\* depth, the tag t is non-empty and contains no whitespace character.
C13_TagsNonEmptyNoWhitespace ==
  (pc = "done" /\ ~IsErr(result))
  => \A tag \in TagsOf(result) :
       tag /= <<>> /\ \A i \in DOMAIN tag : ~is_whitespace(tag[i])

(***************************************************************************)
(* true, false, nil and the symbols that begin like them                   *)
(***************************************************************************)
\* ---- inputs of SpecAtom: one token beginning with t, f or n ----
AtomTokens ==
  { <<"t">>, <<"f">>, <<"n">>,
    <<"t", "r">>, <<"t", "r", "u">>, <<"t", "r", "u", "e">>,
    <<"t", "r", "u", "e", "x">>, <<"t", "r", "u", "e", "e">>,
    <<"f", "a">>, <<"f", "a", "l", "s", "e">>, <<"f", "a", "l", "s", "e", "y">>,
    <<"n", "i">>, <<"n", "i", "l">>, <<"n", "i", "l", "l", "y">>,
    <<"n", "i", "l", "l">>, <<"n", "1">>, <<"t", "r", "u", "e", "#">> }

\* what is written right after the token, without a separator
AtomEnds == { <<>>, <<"]">>, <<",">>, <<"(">>, <<"}">>, <<";", "c">> }

InitAtom ==
  /\ pieces \in { <<tok \o e>> : tok \in AtomTokens, e \in AtomEnds }
           \cup { <<tok \o e, <<"4", "2">> >> : tok \in AtomTokens, e \in AtomEnds }
           \cup { << <<"[">>, tok, <<"]">> >> : tok \in AtomTokens }
  /\ gap \in Gaps
  /\ pc = "ready"
  /\ result = None
  /\ cursor = 1
  /\ encoded = NoNumber
  /\ target = UNIT
  /\ converted = NotConverted

SpecAtom == InitAtom /\ [][Next]_vars

\* the run of characters of t from its start up to the next whitespace,
\* delimiter or end of input
Run(t) == SubSeq(t, 1, CountWhile(t, 1, SymbolChars(t)))

\* the value the token tok stands for
AtomOf(tok) ==
  IF tok = <<"t", "r", "u", "e">> THEN Bool(TRUE)
  ELSE IF tok = <<"f", "a", "l", "s", "e">> THEN Bool(FALSE)
  ELSE IF tok = <<"n", "i", "l">> THEN Nil
  ELSE Symbol(tok)

\* C14: a token beginning with t, f or n parses to Bool(true), Bool(false)
\* or Nil exactly when the whole run of characters up to the next
\* whitespace, delimiter or end of input is true, false or nil; every other
\* such token parses to the Symbol whose text is the whole token.
C14_BoolNilOrSymbol ==
  pc = "done"
  => /\ text[1] \in {"t", "f", "n"} => result = AtomOf(Run(text))
     /\ (Len(pieces) = 3 /\ pieces[1] = <<"[">>) => result = Vector(<<AtomOf(pieces[2])>>)

(***************************************************************************)
(* Sets and maps                                                           *)
(***************************************************************************)
\* ---- inputs of SpecColl: one set literal or one map literal ----
MaxMembers == 3
MaxPairs == 2

SET_OPEN == <<"#", "{">>
MAP_OPEN == <<"{">>
BRACE_CLOSE == <<"}">>

Members ==
  { <<"1", "2">>, <<"2", "1">>, <<":", "a">>,
    <<"#", "{", "1", "2", SPACE, "2", "1", "}">>,
    <<"#", "{", "2", "1", ",", "1", "2", SPACE, "1", "2", "}">>,
    <<"{", ":", "a", SPACE, "1", "2", SPACE, ":", "a", SPACE, "2", "1", "}">>,
    <<"{", ":", "a", SPACE, "2", "1", "}">> }

MapKeys == { <<":", "a">>, <<":", "b">>, <<"7">>, <<"n", "i", "l">> }
MapValues ==
  { <<"1", "2">>, <<":", "a">>, <<"t", "r", "u", "e">>,
    <<"#", "{", "1", "2", SPACE, "1", "2", "}">> }

RECURSIVE Flatten(_)
Flatten(pairs) ==
  IF pairs = <<>> THEN <<>> ELSE <<pairs[1][1], pairs[1][2]>> \o Flatten(Tail(pairs))

InitColl ==
  /\ pieces \in { <<SET_OPEN>> \o ms \o <<BRACE_CLOSE>> : ms \in SeqsUpTo(Members, MaxMembers) }
           \cup { <<MAP_OPEN>> \o Flatten(kvs) \o <<BRACE_CLOSE>> :
                    kvs \in SeqsUpTo(MapKeys \X MapValues, MaxPairs) }
  /\ gap \in Gaps
  /\ pc = "ready"
  /\ result = None
  /\ cursor = 1
  /\ encoded = NoNumber
  /\ target = UNIT
  /\ converted = NotConverted

SpecColl == InitColl /\ [][Next]_vars

\* the forms written between the opening and the closing piece
Inner(ps) == SubSeq(ps, 2, Len(ps) - 1)

\* the positions in the pair list kvs of the last pair of each key
LastOfKey(kvs) == { j \in 1..(Len(kvs) \div 2) :
                      \A j2 \in (j + 1)..(Len(kvs) \div 2) : kvs[2 * j2 - 1] # kvs[2 * j - 1] }

\* the mapping from each key's text to the last value given for it
LastValues(kvs) == { <<kvs[2 * j - 1], parse_text(kvs[2 * j]).res>> : j \in LastOfKey(kvs) }

\* C15: the value parsed from a set literal is the set of its distinct
\* member values, and the value parsed from a map literal is the mapping
\* from each key's text to the last value given for it; repeating a member,
\* or reordering members or pairs with distinct keys, changes nothing.
C15_SetsAndMapsCanonical ==
  pc = "done"
  => /\ pieces[1] = SET_OPEN
        => result = Set({ parse_text(m).res : m \in Range(Inner(pieces)) })
     /\ pieces[1] = MAP_OPEN
        => result = Map(LastValues(Inner(pieces)))

\* a set whose two members are maps that differ in text and agree in value,
\* one of them giving its key twice
C15_Witness ==
  /\ pc = "done"
  /\ Len(pieces) = 4
  /\ pieces[1] = SET_OPEN
  /\ pieces[2] # pieces[3]
  /\ result = Set({ Map({ <<<<":", "a">>, UInt(<<0, 0, 0, 21>>)>> }) })

(***************************************************************************)
(* Vectors and lists                                                       *)
(***************************************************************************)
\* ---- inputs of SpecSeq: one vector or list literal ----
MaxItems == 4

SeqForms ==
  { <<"4", "2">>, <<":", "k">>, <<"[", "5", SPACE, "a", "b", "]">>,
    <<"[", "(", "7", ")", ",", "(", ")", "]">> }

SeqItems == SeqForms \cup { COMMENT, DISCARD }

\* the position after the form that starts at or after position k of xs,
\* Len(xs) + 2 when there is none
RECURSIVE SkipForm(_, _)
SkipForm(xs, k) ==
  IF k > Len(xs) THEN Len(xs) + 2
  ELSE IF xs[k] = COMMENT THEN SkipForm(xs, k + 1)
  ELSE IF xs[k] = DISCARD THEN SkipForm(xs, SkipForm(xs, k + 1))
  ELSE k + 1

\* every discard marker of xs, from position k on, has a form to discard
RECURSIVE Complete(_, _)
Complete(xs, k) ==
  IF k > Len(xs) THEN k = Len(xs) + 1
  ELSE IF xs[k] = DISCARD THEN Complete(xs, SkipForm(xs, k + 1))
  ELSE Complete(xs, k + 1)

InitSeq ==
  /\ pieces \in { <<b[1]>> \o xs \o <<b[2]>> :
                    b \in { << <<"[">>, <<"]">> >>, << <<"(">>, <<")">> >> },
                    xs \in { ys \in SeqsUpTo(SeqItems, MaxItems) : Complete(ys, 1) } }
  /\ gap \in Gaps
  /\ pc = "ready"
  /\ result = None
  /\ cursor = 1
  /\ encoded = NoNumber
  /\ target = UNIT
  /\ converted = NotConverted

SpecSeq == InitSeq /\ [][Next]_vars

\* the values of the non-discarded forms of xs from position k on, in order
RECURSIVE Elements(_, _)
Elements(xs, k) ==
  IF k > Len(xs) THEN <<>>
  ELSE IF xs[k] = COMMENT THEN Elements(xs, k + 1)
  ELSE IF xs[k] = DISCARD THEN Elements(xs, SkipForm(xs, k + 1))
  ELSE <<parse_text(xs[k]).res>> \o Elements(xs, k + 1)

\* C16: a vector or list literal parses to the Vector / List of the values
\* of its non-discarded inner forms, in document order, nested containers
\* parsed recursively; whitespace, commas, comments and discard forms
\* between the delimiters contribute no element.
C16_SeqElementsInOrder ==
  pc = "done"
  => result = IF pieces[1] = <<"[">>
              THEN Vector(Elements(Inner(pieces), 1))
              ELSE List(Elements(Inner(pieces), 1))

\* a list of two elements, the first a nested vector, written with a
\* discard form among them
C16_Witness ==
  /\ pc = "done"
  /\ pieces[1] = <<"(">>
  /\ DISCARD \in Range(pieces)
  /\ result[1] = "List"
  /\ Len(result[2]) = 2
  /\ result[2][1][1] = "Vector"
  /\ result[2][2] = Key(<<":", "k">>)

(***************************************************************************)
(* Namespaced maps                                                         *)
(***************************************************************************)
\* ---- inputs of SpecNs: one namespaced map literal ----
Namespaces == { <<>>, <<"n">>, <<"a", "b", "c">>, <<"a", ".", "b">> }
NsKeys == { <<":", "a">>, <<"7">>, <<"n", "i", "l">> }
NsValues == { <<"1", "2">>, <<":", "a">>, <<"#", "{", "1", "2", SPACE, "1", "2", "}">> }

Front(s) == SubSeq(s, 1, Len(s) - 1)

\* the literal of opener o around the forms fs, the first form written
\* right after the brace when a, the closing brace right after the last
\* form when b
OpenWith(o, fs, a) == IF a THEN <<o \o fs[1]>> \o Tail(fs) ELSE <<o>> \o fs
CloseWith(ps, b) ==
  IF b THEN Front(ps) \o <<ps[Len(ps)] \o BRACE_CLOSE>> ELSE ps \o <<BRACE_CLOSE>>
Literal(o, fs, a, b) ==
  IF fs = <<>> THEN <<o, BRACE_CLOSE>> ELSE CloseWith(OpenWith(o, fs, a), b)

InitNs ==
  /\ pieces \in { Literal(<<":">> \o ns \o <<"{">>, Flatten(kvs), a, b) :
                    ns \in Namespaces, kvs \in SeqsUpTo(NsKeys \X NsValues, MaxPairs),
                    a \in BOOLEAN, b \in BOOLEAN }
  /\ gap \in Gaps
  /\ pc = "ready"
  /\ result = None
  /\ cursor = 1
  /\ encoded = NoNumber
  /\ target = UNIT
  /\ converted = NotConverted

SpecNs == InitNs /\ [][Next]_vars

\* the position of the first `{` of s
BraceAt(s) == CHOOSE i \in DOMAIN s : s[i] = "{" /\ \A j \in 1..(i - 1) : s[j] # "{"

\* the text between the `:` and the `{` of the opening piece
NamespaceOf(ps) == SubSeq(ps[1], 2, BraceAt(ps[1]) - 1)

\* the keys and values written between the braces
FormsOf(ps) ==
  (IF BraceAt(ps[1]) = Len(ps[1]) THEN <<>> ELSE <<Drop(ps[1], BraceAt(ps[1]))>>)
  \o SubSeq(ps, 2, Len(ps) - 1)
  \o (IF ps[Len(ps)] = BRACE_CLOSE THEN <<>> ELSE <<Front(ps[Len(ps)])>>)

\* C17: `:NS{ k1 v1 ... }` parses to NamespacedMap(NS, M), NS being exactly
\* the text between the `:` and the `{`, and M mapping the text of each key,
\* stored without a namespace prefix, to the parsed value.
C17_NamespacedMap ==
  pc = "done" => result = NamespacedMap(NamespaceOf(pieces), LastValues(FormsOf(pieces)))

\* `:abc{k1 v1 k2 v2}` with two different keys
C17_Witness ==
  /\ pc = "done"
  /\ result[1] = "NamespacedMap"
  /\ result[2][1] = <<"a", "b", "c">>
  /\ Cardinality(result[2][2]) = 2
  /\ BraceAt(pieces[1]) < Len(pieces[1])

(***************************************************************************)
(* Deserialization of maps, namespaced maps and optional values            *)
(***************************************************************************)
\* ---- inputs of SpecDe: a map, a namespaced map or a scalar, and a target type ----
MaxFields == 2

FieldKeys == { <<":", "a">>, <<"0">> }
FieldValues == { <<"n", "i", "l">>, <<QUOTE, "s", QUOTE>>, <<":", "k">> }
DeOpeners == { <<"{">>, <<":", "a", "b", "c", "{">>, <<":", "{">> }

ScalarTargets == { UNIT, STRING_T }
Targets ==
  ScalarTargets
  \cup { OptionOf(T) : T \in ScalarTargets }
  \cup { HashMapOf(T) : T \in ScalarTargets \cup { OptionOf(UNIT) } }
  \cup { BTreeMapOf(T) : T \in ScalarTargets }
  \cup { OptionOf(BTreeMapOf(UNIT)) }
  \cup { FieldOf(<<":", "a">>, OptionOf(T)) : T \in ScalarTargets }

InitDe ==
  /\ pieces \in { Literal(o, Flatten(kvs), FALSE, FALSE) :
                    o \in DeOpeners, kvs \in SeqsUpTo(FieldKeys \X FieldValues, MaxFields) }
           \cup { <<v \o <<SPACE>> >> : v \in FieldValues }
  /\ gap = <<SPACE>>
  /\ pc = "ready"
  /\ result = None
  /\ cursor = 1
  /\ encoded = NoNumber
  /\ target \in Targets
  /\ converted = NotConverted

SpecDe == InitDe /\ [][Next]_vars

\* C18: deserializing NamespacedMap(ns, M) into a string-keyed mapping
\* yields a mapping with exactly one entry per entry of M, whose key is ns,
\* then `/`, then the stored key text, and whose value is the conversion of
\* the stored value.
C18_NamespaceFlattening ==
  (/\ pc = "converted"
   /\ result[1] = "NamespacedMap"
   /\ target[1] \in {"HashMap", "BTreeMap"}
   /\ \A e \in result[2][2] : IsOk(deserialize(target[2], e[2])))
  => /\ IsOk(converted)
     /\ Cardinality(converted[2]) = Cardinality(result[2][2])
     /\ converted[2] = { <<result[2][1] \o <<"/">> \o e[1], deserialize(target[2], e[2])[2]>> :
                           e \in result[2][2] }

\* `:abc{ :a "s" 0 :k }` converted to a mapping of strings
C18_Witness ==
  /\ pc = "converted"
  /\ result[1] = "NamespacedMap"
  /\ target = BTreeMapOf(STRING_T)
  /\ converted = Ok({ << <<"a", "b", "c", "/", ":", "a">>, <<"s">> >>,
                      << <<"a", "b", "c", "/", "0">>, <<":", "k">> >> })

(***************************************************************************)
(* Navigation                                                              *)
(***************************************************************************)
MaxIndex == 1

\* the value written last for the key text k among the forms fs, Nil when
\* k is not written
WrittenFor(fs, k) == Lookup(LastValues(fs), k)

Written(fs, k) == \E j \in 1..(Len(fs) \div 2) : fs[2 * j - 1] = k

\* what Option<T> makes of the conversion r of T
OptionalOf(r) == IF IsOk(r) THEN Ok(Some(r[2])) ELSE r

\* C20: deserializing into an optional T yields None exactly when the value
\* is Nil, and otherwise Some(x), x being T's conversion of the value, T's
\* conversion error being returned unchanged; a record field read from a
\* map lacking that key deserializes to None.
C20_OptionalValues ==
  (pc = "converted" /\ ~IsErr(result))
  => /\ target[1] = "Option"
        => /\ converted = Ok(None) <=> result[1] = "Nil"
           /\ result[1] # "Nil" => converted = OptionalOf(deserialize(target[2], result))
     /\ (/\ target[1] = "Field"
         /\ result[1] \in {"Map", "NamespacedMap"}
         /\ ~Written(FormsOf(pieces), target[2]))
        => converted = Ok(None)

\* the field :a, an optional string, read from a map that has only the key 0
C20_Witness ==
  /\ pc = "converted"
  /\ target = FieldOf(<<":", "a">>, OptionOf(STRING_T))
  /\ result = Map({ << <<"0">>, Str(<<"s">>) >> })
  /\ converted = Ok(None)

(***************************************************************************)
(* Failures of deserialization                                             *)
(***************************************************************************)
\* C21: a deserialization that fails returns the error value
\* Deserialize("couldn't convert `X` into `TYPE`"), X being the Display of
\* the offending value, for every target type including the string-keyed
\* mappings; it never panics.
C21_FailuresAreErrors ==
  (pc = "converted" /\ ~IsErr(result))
  => /\ converted[1] \in {"Ok", "Failed"}
     /\ converted[1] = "Failed" => converted[2][1] = "Deserialize"

(***************************************************************************)
(* Arbitrary texts                                                         *)
(***************************************************************************)
\* ---- inputs of SpecAny: every text over a small alphabet ----
MaxTextLen == 4

AnyAlphabet == { "1", "-", "r", "x", "e", "/", "[", KELVIN }

InitAny ==
  /\ pieces \in { <<txt>> : txt \in SeqsUpTo(AnyAlphabet, MaxTextLen) }
  /\ gap = <<SPACE>>
  /\ pc = "ready"
  /\ result = None
  /\ cursor = 1
  /\ encoded = NoNumber
  /\ target = UNIT
  /\ converted = NotConverted

SpecAny == InitAny /\ [][Next]_vars

\* C22: for every input text, well formed or malformed, parse returns a
\* value or an Error value; no input makes the parser panic, in particular
\* not the slicing of the radix prefix in the number reader.
C22_ParseNeverPanics ==
  pc = "done" => result # Panic

(***************************************************************************)
(* Termination                                                             *)
(***************************************************************************)
\* ---- inputs of SpecRun: every text over the characters that open, close
\* and separate forms ----
MaxRunLen == 4

RunAlphabet == { "[", "]", "{", "}", "#", "_", ";", SPACE, "a" }

InitRun ==
  /\ pieces \in { <<txt>> : txt \in SeqsUpTo(RunAlphabet, MaxRunLen) }
  /\ gap = <<SPACE>>
  /\ pc = "ready"
  /\ result = None
  /\ cursor = 1
  /\ encoded = NoNumber
  /\ target = UNIT
  /\ converted = NotConverted

SpecRun == InitRun /\ [][Next]_vars

\* the cursor position q is past the position p and not past the end of t
Consumed(t, p, q) == p < q /\ q <= Len(t) + 1

\* taking the character at any position of t and dispatching on it, as
\* each iteration of a reader's loop does, leaves the cursor past that
\* character and within the text
EveryDispatchConsumes(t) ==
  \A p \in 1..Len(t) : Consumed(t, p, parse_internal(t[p], t, p + 1).pos)

MaxBodyLen == 4

BodyAlphabet == { BACKSLASH, QUOTE, "a", "n" }
OtherValues == { <<"n", "i", "l", SPACE>>, <<":", "k", SPACE>>, <<"4", "2", SPACE>> }

InitText ==
  /\ pieces \in { <<(<<QUOTE>> \o body) \o <<QUOTE>> >> : body \in SeqsUpTo(BodyAlphabet, MaxBodyLen) }
           \cup { <<v>> : v \in OtherValues }
  /\ gap = <<SPACE>>
  /\ pc = "ready"
  /\ result = None
  /\ cursor = 1
  /\ encoded = NoNumber
  /\ target = STRING_T
  /\ converted = NotConverted

SpecText == InitText /\ [][Next]_vars

\* C24: deserializing Str(s) into a String yields exactly s for every
\* content s, also one that begins with or contains a quote character, and
\* deserializing any other value yields its Display text.
C24_StringsPassThrough ==
  (pc = "converted" /\ ~Aborts(result))
  => converted = (IF result[1] = "Str" THEN Ok(result[2]) ELSE Ok(Display(result)))

(***************************************************************************)
(* Round trip through Display                                              *)
(***************************************************************************)
\* C25: every value v that parse returns is read back from its Display
\* text: parse(display(v)) equals v (sets and maps are compared as sets, so
\* the order of their members does not count).
C25_RoundTrip ==
  (pc = "done" /\ ~Aborts(result)) => parse_text(Display(result)).res = result

(***************************************************************************)
(* Atoms at the end of input                                               *)
(***************************************************************************)
\* ---- inputs of SpecEnd: one token and nothing after it ----
MaxAtomLen == 3

EndAlphabet == { "5", "a", "-", ".", "t", BACKSLASH }
Words == { <<"t", "r", "u", "e">>, <<"f", "a", "l", "s", "e">>, <<"n", "i", "l">> }

InitEnd ==
  /\ pieces \in { <<txt>> : txt \in (SeqsUpTo(EndAlphabet, MaxAtomLen) \ {<<>>}) \cup Words }
  /\ gap = <<SPACE>>
  /\ pc = "ready"
  /\ result = None
  /\ cursor = 1
  /\ encoded = NoNumber
  /\ target = UNIT
  /\ converted = NotConverted

SpecEnd == InitEnd /\ [][Next]_vars

AtomTags == { "UInt", "Int", "Double", "Rational", "Symbol", "Bool", "Nil", "Char" }

\* the text A is one atom: followed by a space it is read whole, to that
\* atom's value, and the space is not part of the value
IsAtomText(A, r) ==
  /\ ~Aborts(r.res)
  /\ r.res[1] \in AtomTags
  /\ r.res # Char(SPACE)
  /\ r.pos >= Len(A) + 1

\* C26: the end of input ends an atom as whitespace does: for every atom
\* text A, also of one character, parse(A) returns the value that
\* parse(A followed by one space) returns.
C26_EndOfInputEndsAtom ==
  (pc = "done" /\ IsAtomText(text, parse_text(text \o <<SPACE>>)))
  => result = parse_text(text \o <<SPACE>>).res

(***************************************************************************)
(* The bound of the symbol reader                                          *)
(***************************************************************************)
\* ---- inputs of SpecSym: a run of symbol characters, shorter and longer
\* than the reader's bound, then the end of input, a space or a delimiter ----
MaxSymbolLen == 205

SymbolEnds == { <<>>, <<SPACE>>, <<"]">>, <<SPACE, "b">> }

Repeat(c, n) == [i \in 1..n |-> c]

InitSym ==
  /\ pieces \in { <<Repeat("a", n) \o e>> : n \in 1..MaxSymbolLen, e \in SymbolEnds }
  /\ gap = <<SPACE>>
  /\ pc = "ready"
  /\ result = None
  /\ cursor = 1
  /\ encoded = NoNumber
  /\ target = UNIT
  /\ converted = NotConverted

SpecSym == InitSym /\ [][Next]_vars

\* C27: the symbol reader consumes at most 200 characters after the
\* symbol's first one, so a Symbol has at most 201 characters; it stops
\* earlier at the first whitespace or delimiter and leaves that unconsumed.
C27_SymbolBound ==
  (pc = "done" /\ result[1] = "Symbol")
  => /\ Len(result[2]) <= SymbolLookahead + 1
     /\ cursor = Len(result[2]) + 1
     /\ (Len(result[2]) < SymbolLookahead + 1 /\ cursor <= Len(text))
          => ~IsSymbolChar(text[cursor])

(***************************************************************************)
(* Rationals                                                               *)
(***************************************************************************)
\* ---- inputs of SpecRat: tokens of digits, slashes, signs and points,
\* each followed by a space ----
MaxTokenLen == 5

RatAlphabet == { "1", "2", "/", "-", "." }

InitRat ==
  /\ pieces \in { <<tok \o <<SPACE>> >> : tok \in SeqsUpTo(RatAlphabet, MaxTokenLen) \ {<<>>} }
  /\ gap = <<SPACE>>
  /\ pc = "ready"
  /\ result = None
  /\ cursor = 1
  /\ encoded = NoNumber
  /\ target = UNIT
  /\ converted = NotConverted

SpecRat == InitRat /\ [][Next]_vars

Slashes(s) == Cardinality({i \in DOMAIN s : s[i] = "/"})

\* C28: a numeric token is returned as Rational(text) only when it holds
\* exactly one `/` and both sides are numeric; a token with two or more
\* `/` is never a Rational.
C28_RationalHasOneSlash ==
  (pc = "done" /\ result[1] = "Rational")
  => /\ Slashes(result[2]) = 1
     /\ AllFloats(split_slash(result[2]))

(***************************************************************************)
(* The Empty sentinel                                                      *)
(***************************************************************************)
\* the values held directly by v
Children(v) ==
  CASE v[1] \in {"Vector", "List"} -> Range(v[2])
    [] v[1] = "Set" -> v[2]
    [] v[1] = "Map" -> { e[2] : e \in v[2] }
    [] v[1] = "NamespacedMap" -> { e[2] : e \in v[2][2] }
    [] v[1] = "Tagged" -> { v[2][2] }
    [] OTHER -> {}

RECURSIVE ContainsEmpty(_)
ContainsEmpty(v) == \E c \in Children(v) : c = Empty \/ ContainsEmpty(c)

\* C29: Empty is only ever the whole result of a parse: no value that
\* parse returns holds Empty inside it, as a map or namespaced-map value,
\* as the child of a Tagged, or as an element of a vector, list or set.
C29_EmptyOnlyAtTop ==
  (pc = "done" /\ ~Aborts(result)) => ~ContainsEmpty(result)

(***************************************************************************)
(* Deserialize for the fixed-width integer types                           *)
(***************************************************************************)
\* ---- inputs of SpecCast: decimal integers, small ones and the ones at
\* the edges of 16 and 64 bits, converted to integer types of 8, 16 and 64
\* bits ----
MaxCastValue == 300

EdgeValues ==
  { <<"3", "2", "7", "6", "7">>, <<"3", "2", "7", "6", "8">>,
    <<"6", "5", "5", "3", "5">>, <<"6", "5", "5", "3", "6">>,
    <<"9", "2", "2", "3", "3", "7", "2", "0", "3", "6", "8", "5", "4", "7", "7", "5", "8", "0", "7">>,
    <<"9", "2", "2", "3", "3", "7", "2", "0", "3", "6", "8", "5", "4", "7", "7", "5", "8", "0", "8">>,
    <<"1", "8", "4", "4", "6", "7", "4", "4", "0", "7", "3", "7", "0", "9", "5", "5", "1", "6", "1", "5">> }

Widths == { 8, 16, 64 }
IntegerTargets == { IntOf(w) : w \in Widths } \cup { UintOf(w) : w \in Widths }

InitCast ==
  /\ pieces \in { <<(sign \o ds) \o <<SPACE>> >> :
                    sign \in { <<>>, <<"-">> },
                    ds \in { RadixDigits(n, 10, FALSE) : n \in 0..MaxCastValue } \cup EdgeValues }
  /\ gap = <<SPACE>>
  /\ pc = "ready"
  /\ result = None
  /\ cursor = 1
  /\ encoded = NoNumber
  /\ target \in IntegerTargets
  /\ converted = NotConverted

SpecCast == InitCast /\ [][Next]_vars

\* the number an integer value stands for
NumberOf(v) == IF v[1] = "UInt" THEN <<FALSE, v[2]>> ELSE v[2]

\* C30: deserializing an integer value into a fixed-width integer type
\* returns the number of the source value or a Deserialize error, never a
\* number wrapped modulo 2^w or of the other sign.
C30_NoWrappingCast ==
  (pc = "converted" /\ result[1] \in {"UInt", "Int"})
  => \/ converted = Ok(NumberOf(result))
     \/ converted[1] = "Failed" /\ converted[2][1] = "Deserialize"

====
